---- MODULE Spec2Model ----
(***************************************************************************)
(* PawPrint POS: the application state held by App (src/App.tsx, the       *)
(* LocalSync version, lines 1-349), the handlers that change it and the    *)
(* pricing functions they use.                                             *)
(*                                                                         *)
(* Money.  The source computes with JavaScript numbers.  The model keeps   *)
(* prices, discount values and delivery prices as integers (whole currency *)
(* units) and every computed amount as an integer count of 1/10000 of a    *)
(* unit, so that "x * (1 - d/100)" and "s * (v/100)" are exact: rounding   *)
(* of binary floating point is not modelled.                               *)
(*                                                                         *)
(* Optional fields (threshold?, discountValue?) are <<>> when undefined    *)
(* and <<v>> when set; an undefined discountType is the string             *)
(* "undefined".  Fields that no handler reads (name, category, supplier,   *)
(* image, timestamp) are left out of the records.                          *)
(***************************************************************************)
EXTENDS Integers, Sequences, FiniteSets, TLC

\* ------------------------------------------------------------------ bounds
\* The ledger is cut off at MaxSales records, a cart line at MaxQuantity
\* units and the number of sync timers in flight at MaxTimers.
MaxSales == 1
MaxQuantity == 2
MaxTimers == 1

VARIABLES
    products,               \* App.products: sequence of Product
    sales,                  \* App.sales: sequence of Sale, newest first
    cart,                   \* App.cart: sequence of CartItem
    deliveryEnabled,        \* App.deliveryEnabled
    deliveryPrice,          \* App.deliveryPrice
    globalDiscountEnabled,  \* App.globalDiscountEnabled
    globalDiscountType,     \* App.globalDiscountType
    globalDiscountValue,    \* App.globalDiscountValue
    stockThreshold,         \* App.stockThreshold
    isOnline,               \* App.isOnline
    isSyncing,              \* App.isSyncing
    syncTimers,             \* number of attemptSync timeouts not yet fired
    mountedSales,           \* the sales array captured by the mount-time closure
    currentUser,            \* App.currentUser: "none" or a user id
    currentRole,            \* App.currentUser.role, "none" without a user
    users,                  \* App.systemUsers: sequence of User
    activeTab,              \* App.activeTab
    notification,           \* POS.notification: "none" or the type shown
    showDiscountControls,   \* POS.showDiscountControls (the Promo toggle)
    isScannerOpen,          \* POS.isScannerOpen
    isSuccessFlash,         \* POS.isSuccessFlash
    scanTimers,             \* number of scanner close timeouts not yet fired
    scannerProducts,        \* the products array captured by the scanner effect
    returned                \* what the handler of the last step returned
                            \* ("reload": the step loaded the page)

vars == <<products, sales, cart, deliveryEnabled, deliveryPrice,
          globalDiscountEnabled, globalDiscountType, globalDiscountValue,
          stockThreshold, isOnline, isSyncing, syncTimers, mountedSales,
          currentUser, currentRole, users, activeTab, notification,
          showDiscountControls, isScannerOpen, isSuccessFlash, scanTimers,
          scannerProducts, returned>>

\* --------------------------------------------------------------- helpers
Max(a, b) == IF a >= b THEN a ELSE b
Min(a, b) == IF a <= b THEN a ELSE b

\* 1/10000 of a currency unit: a percentage of a percentage of an integer.
Scale == 100 * 100

Undefined == <<>>
Some(v) == <<v>>

\* x ?? d
OrElse(x, d) == IF x = Undefined THEN d ELSE x[1]

\* x || 0 for an optional number
OrZero(x) == IF x = Undefined THEN 0 ELSE x[1]

RECURSIVE SumSeq(_, _)
\* seq.reduce((sum, x) => sum + f(x), 0)
SumSeq(f(_), seq) ==
    IF seq = <<>> THEN 0 ELSE f(Head(seq)) + SumSeq(f, Tail(seq))

\* seq.findIndex(test), 0 when there is none
FindIndex(test(_), seq) ==
    IF \E i \in 1..Len(seq) : test(seq[i])
    THEN CHOOSE i \in 1..Len(seq) :
            test(seq[i]) /\ \A j \in 1..(i - 1) : ~test(seq[j])
    ELSE 0

\* ------------------------------------------------------------ value sets
\* The users of DEFAULT_USERS, by id.
ADMIN_ID == "1"
STAFF_ID == "2"
UserIds == {ADMIN_ID, STAFF_ID}
RoleOf(u) == IF u = ADMIN_ID THEN "ADMIN" ELSE "STAFF"
DEFAULT_USERS == << [id |-> ADMIN_ID, role |-> RoleOf(ADMIN_ID)],
                    [id |-> STAFF_ID, role |-> RoleOf(STAFF_ID)] >>

PaymentMethods == {"Cash", "Card"}
DiscountTypes == {"percent", "fixed"}

\* What the operator types into the two number inputs of the POS panel
\* (parseFloat(value) || 0: any number, the inputs carry no min or max).
DeliveryPriceInputs == {3}
GlobalDiscountInputs == {10, 150}

\* What the operator types into the global threshold input of Inventory.
ThresholdInputs == {1}

\* ------------------------------------------------------- pure functions
\* getProductStatus with "below the threshold" in place of "at or below".
getProductStatusBelow(p, globalThreshold) ==
    LET stock == p.stock
        threshold == OrElse(p.threshold, globalThreshold)
    IN  IF stock = 0 THEN "Out of Stock"
        ELSE IF stock < threshold THEN "Low Stock"
        ELSE "In Stock"

getProductStatus(p, globalThreshold) ==
    LET stock == p.stock
        threshold == OrElse(p.threshold, globalThreshold)
    IN  IF stock = 0 THEN "Out of Stock"
        ELSE IF stock <= threshold THEN "Low Stock"
        ELSE "In Stock"

\* getItemDiscountedTotal with the fixed discount taken once per line, not per
\* unit.
getItemDiscountedTotalPerLine(item) ==
    LET baseTotal == item.price * item.quantity
    IN  IF item.discountValue = 0 \/ item.discountValue <= 0
        THEN baseTotal * Scale
        ELSE IF item.discountType = "percent"
        THEN baseTotal * (100 - item.discountValue) * 100
        ELSE Max(0, baseTotal - item.discountValue) * Scale

\* The discounted total of one cart line, in 1/10000 units.
getItemDiscountedTotal(item) ==
    LET baseTotal == item.price * item.quantity
    IN  IF item.discountValue = 0 \/ item.discountValue <= 0
        THEN baseTotal * Scale
        ELSE IF item.discountType = "percent"
        THEN baseTotal * (100 - item.discountValue) * 100
        ELSE Max(0, (item.price - item.discountValue) * item.quantity) * Scale

\* base - getItemDiscountedTotal(item), the item-level discount of a line
ItemDiscount(item) ==
    item.price * item.quantity * Scale - getItemDiscountedTotal(item)

\* item.price * item.quantity
LineBase(item) == item.price * item.quantity * Scale

subtotalOf(items) == SumSeq(getItemDiscountedTotal, items)

\* globalDiscountAmountOf without the cap of a fixed discount at the subtotal.
globalDiscountAmountUncapped(sub, enabled, type, value) ==
    IF enabled /\ value > 0
    THEN IF type = "percent" THEN (sub * value) \div 100 ELSE value * Scale
    ELSE 0

globalDiscountAmountOf(sub, enabled, type, value) ==
    IF enabled /\ value > 0
    THEN IF type = "percent"
         THEN (sub * value) \div 100
         ELSE Min(sub, value * Scale)
    ELSE 0

\* The values App derives from its state on every render.
subtotal == subtotalOf(cart)

globalDiscountAmount ==
    globalDiscountAmountOf(subtotal, globalDiscountEnabled,
                           globalDiscountType, globalDiscountValue)

\* totalDiscount without the global discount.
totalDiscountOfItems == SumSeq(ItemDiscount, cart)

totalDiscount == SumSeq(ItemDiscount, cart) + globalDiscountAmount

currentDeliveryFee == IF deliveryEnabled THEN deliveryPrice * Scale ELSE 0

\* totalCartValue with the floor taken before the delivery fee is added.
totalCartValueFloorBeforeDelivery ==
    Max(0, subtotal - globalDiscountAmount) + currentDeliveryFee

totalCartValue == Max(0, subtotal - globalDiscountAmount + currentDeliveryFee)

\* The copies POS computes for its own display (POS.tsx, second version).
POS_getItemDiscountedTotal(item) ==
    LET baseTotal == item.price * item.quantity
    IN  IF item.discountValue = 0 \/ item.discountValue <= 0
        THEN baseTotal * Scale
        ELSE IF item.discountType = "percent"
        THEN baseTotal * (100 - item.discountValue) * 100
        ELSE Max(0, (item.price - item.discountValue) * item.quantity) * Scale

POS_subtotal == SumSeq(POS_getItemDiscountedTotal, cart)

POS_globalDiscountAmount ==
    IF ~globalDiscountEnabled \/ globalDiscountValue <= 0 THEN 0
    ELSE IF globalDiscountType = "percent"
    THEN (POS_subtotal * globalDiscountValue) \div 100
    ELSE Min(POS_subtotal, globalDiscountValue * Scale)

POS_total ==
    Max(0, POS_subtotal - POS_globalDiscountAmount
           + (IF deliveryEnabled THEN deliveryPrice * Scale ELSE 0))

\* The copy the receipt computes for the lines it prints (Receipt):
\* Math.max(0, baseTotal - item.discountValue) under a fixed discount.
Receipt_getItemDiscountedTotal(item) ==
    LET baseTotal == item.price * item.quantity
    IN  IF item.discountValue = 0 \/ item.discountValue <= 0
        THEN baseTotal * Scale
        ELSE IF item.discountType = "percent"
        THEN baseTotal * (100 - item.discountValue) * 100
        ELSE Max(0, baseTotal - item.discountValue) * Scale

\* itemBaseTotal - itemTotal, the "Item Discount" the receipt prints for a line
Receipt_discount(item) ==
    item.price * item.quantity * Scale - Receipt_getItemDiscountedTotal(item)

\* The TOTAL line of the POS panel:
\* showDiscountControls ? total : subtotal + (deliveryEnabled ? deliveryPrice : 0)
POS_displayedTotal ==
    IF showDiscountControls
    THEN POS_total
    ELSE POS_subtotal + (IF deliveryEnabled THEN deliveryPrice * Scale ELSE 0)

isAdmin == currentRole = "ADMIN"

\* ------------------------------------------------------- initial state
\* useState(10) and useState(5.00) of App.
DefaultStockThreshold == 10
DefaultDeliveryPrice == 5

\* A Product as the store writes it: every write path stores the status
\* derived under the global threshold in force at the write.
MkProduct(id, barcode, price, stock, threshold, discountType, discountValue, globalThreshold) ==
    [id |-> id, barcode |-> barcode, price |-> price, stock |-> stock,
     threshold |-> threshold, discountType |-> discountType,
     discountValue |-> discountValue,
     status |-> getProductStatus([stock |-> stock, threshold |-> threshold],
                                 globalThreshold)]

\* The product list found at start-up: localStorage 'pawprint_products' when a
\* snapshot is saved, INITIAL_PRODUCTS otherwise.  The model starts from a
\* saved snapshot of two products with small stocks (the stocks of
\* INITIAL_PRODUCTS, 8 to 120, cannot be sold out within the bounds): one like
\* the entries of INITIAL_PRODUCTS, without discount fields, and one edited
\* through the inventory form to carry a 20% catalog discount and a threshold.
SavedProducts ==
    << MkProduct("1", "8801", 50, 2, Some(1), "percent", Some(20),
                 DefaultStockThreshold),
       MkProduct("2", "8802", 10, 1, Undefined, "undefined", Undefined,
                 DefaultStockThreshold) >>

\* A catalog as the inventory form leaves it: a 20% catalog discount on the
\* first product, a fixed discount of 3 per unit on the second, one unit of
\* each in stock.
POSCatalog ==
    << MkProduct("1", "8801", 50, 1, Some(1), "percent", Some(20),
                 DefaultStockThreshold),
       MkProduct("2", "8802", 10, 1, Undefined, "fixed", Some(3),
                 DefaultStockThreshold) >>

\* The cart line addToCart builds for a product that is not yet in the cart:
\* { ...product, quantity: 1, discountType: product.discountType || 'percent',
\*   discountValue: product.discountValue || 0 }.  Of the copied product fields
\* the model keeps the ones a handler reads from a cart line.
NewCartItem(product) ==
    [id |-> product.id, price |-> product.price, quantity |-> 1,
     discountType |-> IF product.discountType = "undefined"
                      THEN "percent" ELSE product.discountType,
     discountValue |-> OrZero(product.discountValue)]

\* The ledger found at start-up: localStorage 'pawprint_sales' when saved,
\* [] otherwise.  A saved ledger may hold a sale an earlier session took while
\* it was offline.
SavedPendingSale ==
    LET items == << NewCartItem(SavedProducts[2]) >>
    IN  [id |-> "s0", items |-> items,
         subtotal |-> SumSeq(LineBase, items),
         deliveryFee |-> 0,
         totalDiscount |-> SumSeq(ItemDiscount, items),
         total |-> subtotalOf(items),
         paymentMethod |-> "Cash", processedBy |-> STAFF_ID,
         syncStatus |-> "pending"]

SavedLedgers == { <<>>, << SavedPendingSale >> }

\* Math.random().toString(36).substr(2, 9): some string, not known to be new.
SaleIds == {"s1"}

\* The state of App once `user` has the terminal ("none": before any login)
\* with the given snapshots loaded, the browser on or off line and `items` in
\* the cart, every control of the pricing panel still as constructed.
Started(catalog, ledger, online, user, items) ==
    /\ products = catalog
    /\ sales = ledger
    /\ mountedSales = ledger
    /\ cart = items
    /\ deliveryEnabled = FALSE
    /\ deliveryPrice = DefaultDeliveryPrice
    /\ globalDiscountEnabled = FALSE
    /\ globalDiscountType = "percent"
    /\ globalDiscountValue = 0
    /\ stockThreshold = DefaultStockThreshold
    /\ isOnline = online
    /\ isSyncing = FALSE
    /\ syncTimers = 0
    /\ currentUser = user
    /\ currentRole = (IF user = "none" THEN "none" ELSE RoleOf(user))
    /\ users = DEFAULT_USERS
    /\ activeTab = "pos"
    /\ notification = "none"
    /\ showDiscountControls = TRUE
    /\ isScannerOpen = FALSE
    /\ isSuccessFlash = FALSE
    /\ scanTimers = 0
    /\ scannerProducts = <<>>
    /\ returned = "none"

\* The state after construction.
Init ==
    \E ledger \in SavedLedgers, online \in BOOLEAN :
        Started(SavedProducts, ledger, online, "none", <<>>)

\* ------------------------------------------------------------- handlers
settingsVars == <<deliveryEnabled, deliveryPrice, globalDiscountEnabled,
                  globalDiscountType, globalDiscountValue>>
syncVars == <<isOnline, isSyncing, syncTimers, mountedSales>>
accessVars == <<currentRole, users, activeTab>>
posVars == <<showDiscountControls, isScannerOpen, isSuccessFlash, scanTimers,
             scannerProducts>>

\* Login.handleLogin with the PIN of the selected user, then onLogin.
handleLogin(u) ==
    /\ currentUser = "none"
    /\ \E k \in 1..Len(users) :
          /\ users[k].id = u
          /\ currentRole' = users[k].role
    /\ currentUser' = u
    /\ returned' = "none"
    /\ UNCHANGED <<notification, posVars, users, activeTab>>
    /\ UNCHANGED <<products, sales, cart, settingsVars, stockThreshold, syncVars>>

\* onLogout without setActiveTab('pos').
onLogoutTabKept ==
    /\ currentUser # "none"
    /\ currentUser' = "none"
    /\ currentRole' = "none"
    /\ IF activeTab = "pos"
       THEN UNCHANGED <<notification, posVars>>
       ELSE /\ notification' = "none"
            /\ showDiscountControls' = TRUE
            /\ isScannerOpen' = FALSE
            /\ isSuccessFlash' = FALSE
            /\ scanTimers' = 0
            /\ scannerProducts' = <<>>
    /\ returned' = "none"
    /\ UNCHANGED <<products, sales, cart, settingsVars, stockThreshold, syncVars,
                   users, activeTab>>

\* The state of POS is local to the component: it is constructed again when
\* POS is mounted again, and a timer of an unmounted POS changes nothing.
POSMounted ==
    /\ notification' = "none"
    /\ showDiscountControls' = TRUE
    /\ isScannerOpen' = FALSE
    /\ isSuccessFlash' = FALSE
    /\ scanTimers' = 0
    /\ scannerProducts' = <<>>

\* onLogout: setCurrentUser(null); setActiveTab('pos')
onLogout ==
    /\ currentUser # "none"
    /\ currentUser' = "none"
    /\ currentRole' = "none"
    /\ activeTab' = "pos"
    /\ POSMounted
    /\ returned' = "none"
    /\ UNCHANGED users
    /\ UNCHANGED <<products, sales, cart, settingsVars, stockThreshold, syncVars>>

\* CartAfterAdd taking the price and the discount of the line again from the
\* product each time the product is added.
CartAfterAddRefreshed(prev, product) ==
    IF \E i \in 1..Len(prev) : prev[i].id = product.id
    THEN [i \in 1..Len(prev) |->
            IF prev[i].id = product.id
            THEN [NewCartItem(product) EXCEPT !.quantity = prev[i].quantity + 1]
            ELSE prev[i]]
    ELSE << NewCartItem(product) >> \o prev

\* setCart(prev => ...) of addToCart
CartAfterAdd(prev, product) ==
    IF \E i \in 1..Len(prev) : prev[i].id = product.id
    THEN [i \in 1..Len(prev) |->
            IF prev[i].id = product.id
            THEN [prev[i] EXCEPT !.quantity = prev[i].quantity + 1]
            ELSE prev[i]]
    ELSE << NewCartItem(product) >> \o prev

\* addToCart(product), product a tile of the catalog shown by POS
addToCart(product) ==
    /\ currentUser # "none"
    /\ \A i \in 1..Len(cart) :
          cart[i].id = product.id => cart[i].quantity < MaxQuantity
    /\ cart' = IF product.stock <= 0 THEN cart ELSE CartAfterAdd(cart, product)
    /\ returned' = "none"
    /\ UNCHANGED <<notification, posVars, accessVars>>
    /\ UNCHANGED <<products, sales, settingsVars, stockThreshold, syncVars,
                   currentUser>>

removeFromCart(productId) ==
    /\ currentUser # "none"
    /\ cart' = SelectSeq(cart, LAMBDA item : item.id # productId)
    /\ returned' = "none"
    /\ UNCHANGED <<notification, posVars, accessVars>>
    /\ UNCHANGED <<products, sales, settingsVars, stockThreshold, syncVars,
                   currentUser>>

\* CartAfterUpdate without the floor at 1.
CartAfterUpdateUnfloored(prev, productId, delta) ==
    [i \in 1..Len(prev) |->
        IF prev[i].id = productId
        THEN [prev[i] EXCEPT !.quantity = prev[i].quantity + delta]
        ELSE prev[i]]

\* setCart(prev => ...) of updateCartQuantity
CartAfterUpdate(prev, productId, delta) ==
    [i \in 1..Len(prev) |->
        IF prev[i].id = productId
        THEN [prev[i] EXCEPT !.quantity = Max(1, prev[i].quantity + delta)]
        ELSE prev[i]]

updateCartQuantity(productId, delta) ==
    /\ currentUser # "none"
    /\ \A i \in 1..Len(cart) :
          cart[i].id = productId => cart[i].quantity + delta <= MaxQuantity
    /\ cart' = CartAfterUpdate(cart, productId, delta)
    /\ returned' = "none"
    /\ UNCHANGED <<notification, posVars, accessVars>>
    /\ UNCHANGED <<products, sales, settingsVars, stockThreshold, syncVars,
                   currentUser>>

\* NewSale marking every sale as synced, whatever the connectivity.
NewSaleAlwaysSynced(paymentMethod, id) ==
    [id |-> id, items |-> cart,
     subtotal |-> SumSeq(LineBase, cart),
     deliveryFee |-> currentDeliveryFee,
     totalDiscount |-> totalDiscount,
     total |-> totalCartValue,
     paymentMethod |-> paymentMethod,
     processedBy |-> currentUser,
     syncStatus |-> "synced"]

\* The Sale processCheckout builds from the values of the current render.
NewSale(paymentMethod, id) ==
    [id |-> id, items |-> cart,
     subtotal |-> SumSeq(LineBase, cart),
     deliveryFee |-> currentDeliveryFee,
     totalDiscount |-> totalDiscount,
     total |-> totalCartValue,
     paymentMethod |-> paymentMethod,
     processedBy |-> currentUser,
     syncStatus |-> IF isOnline THEN "synced" ELSE "pending"]

\* ProductsAfterCheckout without the floor at 0.
ProductsAfterCheckoutUnclamped(prev, items, globalThreshold) ==
    [i \in 1..Len(prev) |->
        LET p == prev[i]
            k == FindIndex(LAMBDA item : item.id = p.id, items)
        IN  IF k # 0
            THEN LET newStock == p.stock - items[k].quantity
                 IN  [p EXCEPT !.stock = newStock,
                               !.status = getProductStatus(
                                   [p EXCEPT !.stock = newStock], globalThreshold)]
            ELSE p]

\* ProductsAfterCheckout keeping the stored status of a sold product.
ProductsAfterCheckoutStatusKept(prev, items, globalThreshold) ==
    [i \in 1..Len(prev) |->
        LET p == prev[i]
            k == FindIndex(LAMBDA item : item.id = p.id, items)
        IN  IF k # 0
            THEN [p EXCEPT !.stock = Max(0, p.stock - items[k].quantity)]
            ELSE p]

\* setProducts(prev => prev.map(...)) of processCheckout
ProductsAfterCheckout(prev, items, globalThreshold) ==
    [i \in 1..Len(prev) |->
        LET p == prev[i]
            k == FindIndex(LAMBDA item : item.id = p.id, items)
        IN  IF k # 0
            THEN LET newStock == Max(0, p.stock - items[k].quantity)
                 IN  [p EXCEPT !.stock = newStock,
                               !.status = getProductStatus(
                                   [p EXCEPT !.stock = newStock], globalThreshold)]
            ELSE p]

\* if (cart.length === 0) return;
EmptyCheckout ==
    /\ returned' = "undefined"
    /\ UNCHANGED <<notification, posVars, accessVars>>
    /\ UNCHANGED <<products, sales, cart, settingsVars, stockThreshold,
                   syncVars, currentUser>>

\* CommitCheckout without setCart([]).
CommitCheckoutCartKept(paymentMethod) ==
    /\ Len(sales) < Len(mountedSales) + MaxSales
    /\ \E id \in SaleIds :
          sales' = << NewSale(paymentMethod, id) >> \o sales
    /\ products' = ProductsAfterCheckout(products, cart, stockThreshold)
    /\ deliveryEnabled' = FALSE
    /\ globalDiscountEnabled' = FALSE
    /\ returned' = "sale"
    /\ UNCHANGED <<notification, posVars, accessVars>>
    /\ UNCHANGED <<cart, deliveryPrice, globalDiscountType, globalDiscountValue,
                   stockThreshold, syncVars, currentUser>>

\* CommitCheckout resetting the pricing values along with the toggles.
CommitCheckoutValuesReset(paymentMethod) ==
    /\ Len(sales) < Len(mountedSales) + MaxSales
    /\ \E id \in SaleIds :
          sales' = << NewSale(paymentMethod, id) >> \o sales
    /\ products' = ProductsAfterCheckout(products, cart, stockThreshold)
    /\ cart' = <<>>
    /\ deliveryEnabled' = FALSE
    /\ globalDiscountEnabled' = FALSE
    /\ deliveryPrice' = DefaultDeliveryPrice
    /\ globalDiscountValue' = 0
    /\ returned' = "sale"
    /\ UNCHANGED <<notification, posVars, accessVars>>
    /\ UNCHANGED <<globalDiscountType, stockThreshold, syncVars, currentUser>>

\* the body of processCheckout after the guard
CommitCheckout(paymentMethod) ==
    /\ Len(sales) < Len(mountedSales) + MaxSales
    /\ \E id \in SaleIds :
          sales' = << NewSale(paymentMethod, id) >> \o sales
    /\ products' = ProductsAfterCheckout(products, cart, stockThreshold)
    /\ cart' = <<>>
    /\ deliveryEnabled' = FALSE
    /\ globalDiscountEnabled' = FALSE
    /\ returned' = "sale"
    /\ UNCHANGED <<notification, posVars, accessVars>>
    /\ UNCHANGED <<deliveryPrice, globalDiscountType, globalDiscountValue,
                   stockThreshold, syncVars, currentUser>>

\* processCheckout without the guard on the empty cart.
processCheckoutUnguarded(paymentMethod) ==
    /\ currentUser # "none"
    /\ CommitCheckout(paymentMethod)

processCheckout(paymentMethod) ==
    /\ currentUser # "none"
    /\ IF Len(cart) = 0 THEN EmptyCheckout ELSE CommitCheckout(paymentMethod)

\* The controls of the POS panel.  The two number inputs and the type button
\* are rendered only while their toggle is on.
setDeliveryEnabled ==
    /\ currentUser # "none"
    /\ deliveryEnabled' = ~deliveryEnabled
    /\ returned' = "none"
    /\ UNCHANGED <<notification, posVars, accessVars>>
    /\ UNCHANGED <<products, sales, cart, deliveryPrice, globalDiscountEnabled,
                   globalDiscountType, globalDiscountValue, stockThreshold,
                   syncVars, currentUser>>

setDeliveryPrice(price) ==
    /\ currentUser # "none"
    /\ deliveryEnabled
    /\ deliveryPrice' = price
    /\ returned' = "none"
    /\ UNCHANGED <<notification, posVars, accessVars>>
    /\ UNCHANGED <<products, sales, cart, deliveryEnabled, globalDiscountEnabled,
                   globalDiscountType, globalDiscountValue, stockThreshold,
                   syncVars, currentUser>>

setGlobalDiscountEnabled ==
    /\ currentUser # "none"
    /\ globalDiscountEnabled' = ~globalDiscountEnabled
    /\ returned' = "none"
    /\ UNCHANGED <<notification, posVars, accessVars>>
    /\ UNCHANGED <<products, sales, cart, deliveryEnabled, deliveryPrice,
                   globalDiscountType, globalDiscountValue, stockThreshold,
                   syncVars, currentUser>>

setGlobalDiscountType ==
    /\ currentUser # "none"
    /\ globalDiscountEnabled
    /\ globalDiscountType' =
          IF globalDiscountType = "percent" THEN "fixed" ELSE "percent"
    /\ returned' = "none"
    /\ UNCHANGED <<notification, posVars, accessVars>>
    /\ UNCHANGED <<products, sales, cart, deliveryEnabled, deliveryPrice,
                   globalDiscountEnabled, globalDiscountValue, stockThreshold,
                   syncVars, currentUser>>

setGlobalDiscountValue(value) ==
    /\ currentUser # "none"
    /\ globalDiscountEnabled
    /\ globalDiscountValue' = value
    /\ returned' = "none"
    /\ UNCHANGED <<notification, posVars, accessVars>>
    /\ UNCHANGED <<products, sales, cart, deliveryEnabled, deliveryPrice,
                   globalDiscountEnabled, globalDiscountType, stockThreshold,
                   syncVars, currentUser>>

\* The Promo button: setShowDiscountControls(!showDiscountControls)
setShowDiscountControls ==
    /\ currentUser # "none"
    /\ showDiscountControls' = ~showDiscountControls
    /\ returned' = "none"
    /\ UNCHANGED <<products, sales, cart, settingsVars, stockThreshold,
                   syncVars, currentUser, accessVars, notification,
                   isScannerOpen, isSuccessFlash, scanTimers, scannerProducts>>

\* ------------------------------------------------------------- barcodes
\* What arrives in the barcode field or from the camera: the barcodes of the
\* saved catalog and one that no product carries.
BarcodeInputs == {"8801", "8802", "0000"}

\* handleBarcodeDetected without the test of the stock.
handleBarcodeDetectedAnyStock(code) ==
    /\ currentUser # "none"
    /\ LET idx == FindIndex(LAMBDA p : p.barcode = code, products)
       IN  IF idx # 0
           THEN /\ \A i \in 1..Len(cart) :
                      cart[i].id = products[idx].id
                          => cart[i].quantity < MaxQuantity
                /\ cart' = CartAfterAdd(cart, products[idx])
                /\ notification' = "success"
                /\ returned' = "true"
           ELSE /\ cart' = cart
                /\ notification' = "error"
                /\ returned' = "false"
    /\ UNCHANGED <<products, sales, settingsVars, stockThreshold, syncVars,
                   currentUser, posVars, accessVars>>

\* POS.handleBarcodeDetected(code), which the barcode form submits to and the
\* camera scanner calls: products.find by barcode, addToCart and a success
\* notification when the product found has stock, an error notification
\* otherwise.  showNotification replaces the pending clear timer by a new one.
handleBarcodeDetected(code) ==
    /\ currentUser # "none"
    /\ LET idx == FindIndex(LAMBDA p : p.barcode = code, products)
       IN  IF idx # 0 /\ products[idx].stock > 0
           THEN /\ \A i \in 1..Len(cart) :
                      cart[i].id = products[idx].id
                          => cart[i].quantity < MaxQuantity
                /\ cart' = CartAfterAdd(cart, products[idx])
                /\ notification' = "success"
                /\ returned' = "true"
           ELSE /\ cart' = cart
                /\ notification' = "error"
                /\ returned' = "false"
    /\ UNCHANGED <<products, sales, settingsVars, stockThreshold, syncVars,
                   currentUser, posVars, accessVars>>

\* the setTimeout callback of showNotification, 3000 ms later
notificationTimeout ==
    /\ notification # "none"
    /\ notification' = "none"
    /\ returned' = "none"
    /\ UNCHANGED <<products, sales, cart, settingsVars, stockThreshold,
                   syncVars, currentUser, posVars, accessVars>>

\* ------------------------------------------------------- tabs and users
\* The tabs the header offers: Analytics and Staff only to an ADMIN.
AdminTabs == {"dashboard", "users"}
Tabs == {"pos", "history", "inventory", "assistant"}
            \cup (IF isAdmin THEN AdminTabs ELSE {})

\* A tab button of the header: setActiveTab(tab.id).  POS is mounted only
\* under the 'pos' tab, so its local state is constructed again on the way
\* in and gone on the way out.
setActiveTab(tab) ==
    /\ currentUser # "none"
    /\ tab \in Tabs
    /\ activeTab' = tab
    /\ IF tab # activeTab /\ "pos" \in {tab, activeTab}
       THEN POSMounted
       ELSE UNCHANGED <<notification, posVars>>
    /\ returned' = "none"
    /\ UNCHANGED <<products, sales, cart, settingsVars, stockThreshold,
                   syncVars, currentUser, currentRole, users>>

\* What App renders under the admin tabs.
DashboardShown == currentUser # "none" /\ activeTab = "dashboard" /\ isAdmin
UsersShown == currentUser # "none" /\ activeTab = "users" /\ isAdmin

\* The user list is cut off at MaxUsers entries.
MaxUsers == 3

\* Math.random().toString(36).substr(2, 9): the id of a user added here.
NewUserIds == {"u3"}
Roles == {"ADMIN", "STAFF"}

usersFrame ==
    /\ returned' = "none"
    /\ UNCHANGED <<products, sales, cart, settingsVars, stockThreshold,
                   syncVars, currentUser, currentRole, activeTab,
                   notification, posVars>>

\* Users.handleSaveUser with a user being edited
handleSaveUserEdit(k, role) ==
    /\ UsersShown
    /\ users' = [i \in 1..Len(users) |->
                    IF users[i].id = users[k].id
                    THEN [users[i] EXCEPT !.role = role]
                    ELSE users[i]]
    /\ usersFrame

\* Users.handleSaveUser without one
handleSaveUserNew(id, role) ==
    /\ UsersShown
    /\ Len(users) < MaxUsers
    /\ \A i \in 1..Len(users) : users[i].id # id
    /\ users' = Append(users, [id |-> id, role |-> role])
    /\ usersFrame

\* Users.deleteUser, confirmed
deleteUser(id) ==
    /\ UsersShown
    /\ users' = SelectSeq(users, LAMBDA u : u.id # id)
    /\ usersFrame

\* --------------------------------------------------------- camera scanner
\* The close timeouts of the scanner that may be pending at once.
MaxScanTimers == 2

\* The Scan button: setIsScannerOpen(true).  The scanner effect runs after the
\* render that follows and starts the 300 ms detection interval; the interval
\* calls the handleBarcodeDetected of that render, which reads the products
\* array of that render.
openScanner ==
    /\ currentUser # "none"
    /\ ~isScannerOpen
    /\ isScannerOpen' = TRUE
    /\ scannerProducts' = products
    /\ returned' = "none"
    /\ UNCHANGED <<products, sales, cart, settingsVars, stockThreshold,
                   syncVars, currentUser, accessVars, notification,
                   showDiscountControls, isSuccessFlash, scanTimers>>

\* One tick of the detection interval with a barcode in front of the camera:
\* handleBarcodeDetected(detectedBarcode) of the closure and, when it returns
\* true, setIsSuccessFlash(true) and a new 500 ms close timeout.  The interval
\* is cleared by the cleanup of the effect, once isScannerOpen is false.
scanDetected(code) ==
    /\ isScannerOpen
    /\ LET idx == FindIndex(LAMBDA p : p.barcode = code, scannerProducts)
       IN  IF idx # 0 /\ scannerProducts[idx].stock > 0
           THEN /\ \A i \in 1..Len(cart) :
                      cart[i].id = scannerProducts[idx].id
                          => cart[i].quantity < MaxQuantity
                /\ scanTimers < MaxScanTimers
                /\ cart' = CartAfterAdd(cart, scannerProducts[idx])
                /\ notification' = "success"
                /\ returned' = "true"
                /\ isSuccessFlash' = TRUE
                /\ scanTimers' = scanTimers + 1
           ELSE /\ cart' = cart
                /\ notification' = "error"
                /\ returned' = "false"
                /\ UNCHANGED <<isSuccessFlash, scanTimers>>
    /\ UNCHANGED <<products, sales, settingsVars, stockThreshold, syncVars,
                   currentUser, accessVars, showDiscountControls,
                   isScannerOpen, scannerProducts>>

\* the setTimeout callback of a successful detection, 500 ms later:
\* setIsSuccessFlash(false); setIsScannerOpen(false)
scanCloseTimeout ==
    /\ scanTimers > 0
    /\ scanTimers' = scanTimers - 1
    /\ isSuccessFlash' = FALSE
    /\ isScannerOpen' = FALSE
    /\ scannerProducts' = <<>>
    /\ returned' = "none"
    /\ UNCHANGED <<products, sales, cart, settingsVars, stockThreshold,
                   syncVars, currentUser, accessVars, notification,
                   showDiscountControls>>

\* The close buttons of the scanner overlay: setIsScannerOpen(false)
closeScanner ==
    /\ isScannerOpen
    /\ isScannerOpen' = FALSE
    /\ scannerProducts' = <<>>
    /\ returned' = "none"
    /\ UNCHANGED <<products, sales, cart, settingsVars, stockThreshold,
                   syncVars, currentUser, accessVars, notification,
                   showDiscountControls, isSuccessFlash, scanTimers>>

\* ------------------------------------------------------------ inventory
\* App hands isAdmin to Inventory.  The Inventory that takes it returns from
\* handleSave when it is false, deletes only when it is true, and renders the
\* add, edit and delete buttons, the import input and the settings dialog to
\* an ADMIN only; the handlers below carry that test.

\* The catalog is cut off at MaxProducts entries.
MaxProducts == 2

\* What the inventory form submits (handleSave reads price, stock, threshold,
\* discountType and discountValue without any range check; discountValue is
\* parseFloat(...) || 0, threshold is undefined when the field is empty).
FormInputs ==
    { [price |-> 10, stock |-> 1, threshold |-> Undefined,
       discountType |-> "percent", discountValue |-> 150] }

\* Barcodes typed or scanned into the form of a new product.
NewBarcodes == {"8803"}

\* Barcodes typed or scanned into the barcode field of the form, one of them
\* the barcode of a catalog product.
FormBarcodes == {"8801", "8803"}

\* Date.now().toString(): an id no product, cart line or sold line carries.
NewProductIds == {"3"}

UsedIds ==
    {products[i].id : i \in 1..Len(products)}
        \cup {cart[i].id : i \in 1..Len(cart)}
        \cup UNION { {sales[i].items[j].id : j \in 1..Len(sales[i].items)} :
                     i \in 1..Len(sales) }

\* { ...editingProduct, ...data } and { ...data, id }
FormProduct(id, barcode, data, status) ==
    [id |-> id, barcode |-> barcode, price |-> data.price,
     stock |-> data.stock, threshold |-> data.threshold,
     discountType |-> data.discountType,
     discountValue |-> Some(data.discountValue), status |-> status]

\* setProducts(prev => ...) of updateProduct
ProductsAfterUpdate(prev, updated, globalThreshold) ==
    [i \in 1..Len(prev) |->
        IF prev[i].id = updated.id
        THEN [updated EXCEPT
                 !.status = getProductStatus(updated, globalThreshold)]
        ELSE prev[i]]

\* setProducts(prev => ...) of addProduct
ProductsAfterAdd(prev, p, globalThreshold) ==
    Append(prev, [p EXCEPT !.status = getProductStatus(p, globalThreshold)])

\* setProducts(prev => ...) of deleteProduct
ProductsAfterDelete(prev, id) == SelectSeq(prev, LAMBDA p : p.id # id)

inventoryFrame ==
    /\ returned' = "none"
    /\ UNCHANGED <<notification, posVars, accessVars>>
    /\ UNCHANGED <<sales, cart, settingsVars, stockThreshold, syncVars,
                   currentUser>>

\* Inventory.handleSave with a product being edited: onUpdate.  The barcode
\* field is loaded with the barcode of the product and can be typed or
\* scanned over before the form is submitted (barcode: formBarcode).
handleSaveEditBarcode(i, barcode, data) ==
    /\ isAdmin
    /\ products' = ProductsAfterUpdate(
          products,
          FormProduct(products[i].id, barcode, data, products[i].status),
          stockThreshold)
    /\ inventoryFrame

\* the same with the barcode field left as it was loaded
handleSaveEdit(i, data) == handleSaveEditBarcode(i, products[i].barcode, data)

\* Inventory.handleSave without one: onAdd
handleSaveNew(id, barcode, data) ==
    /\ isAdmin
    /\ Len(products) < MaxProducts
    /\ id \notin UsedIds
    /\ products' = ProductsAfterAdd(
          products, FormProduct(id, barcode, data, "undefined"), stockThreshold)
    /\ inventoryFrame

\* Inventory.handleDeleteConfirmed: onDelete
handleDeleteConfirmed(id) ==
    /\ isAdmin
    /\ products' = ProductsAfterDelete(products, id)
    /\ inventoryFrame

\* The global threshold input of the inventory settings
setStockThreshold(val) ==
    /\ isAdmin
    /\ stockThreshold' = val
    /\ returned' = "none"
    /\ UNCHANGED <<notification, posVars, accessVars>>
    /\ UNCHANGED <<products, sales, cart, settingsVars, syncVars, currentUser>>

\* ----------------------------------------------------------- CSV import
\* The data rows of a CSV file as parseCSVLine and the parse calls of
\* handleImportCSV read them: barcode (cols[1]), stock (parseInt || 0),
\* threshold (undefined when the column is not a number), price, discount
\* type and discount value.  A row with an empty barcode is skipped.
ImportRows ==
    { [barcode |-> b, stock |-> st, threshold |-> th, price |-> 7,
       discountType |-> "fixed", discountValue |-> 2] :
      b \in {"", "8801", "8803"}, st \in {0, 5}, th \in {Undefined, Some(3)} }

\* The files chosen in the file dialog: one or two data rows.
ImportFiles ==
    { << r >> : r \in ImportRows } \cup
    { << r1, r2 >> : r1 \in ImportRows, r2 \in ImportRows }

\* Date.now() at the time the file is read.
ImportStamps == {"a", "b"}

\* `imp-${timestamp}-${i}`
ImportId(stamp, i) == "imp-" \o stamp \o "-" \o ToString(i)

RECURSIVE ImportedItemsFrom(_, _, _, _)
\* the loop of handleImportCSV over the data rows, from row i on
ImportedItemsFrom(file, i, stamp, globalThreshold) ==
    IF i > Len(file) THEN <<>>
    ELSE LET row == file[i]
             rest == ImportedItemsFrom(file, i + 1, stamp, globalThreshold)
         IN  IF row.barcode = "" THEN rest
             ELSE << [id |-> ImportId(stamp, i), barcode |-> row.barcode,
                      price |-> row.price, stock |-> row.stock,
                      threshold |-> row.threshold,
                      discountType |-> row.discountType,
                      discountValue |-> Some(row.discountValue),
                      status |-> IF row.stock = 0 THEN "Out of Stock"
                                 ELSE IF row.stock <= OrElse(row.threshold,
                                                             globalThreshold)
                                 THEN "Low Stock" ELSE "In Stock"] >> \o rest

ImportedItems(file, stamp, globalThreshold) ==
    ImportedItemsFrom(file, 1, stamp, globalThreshold)

RECURSIVE bulkUpdateProductsById(_, _, _)
\* bulkUpdateProducts matching the records by identifier, not by barcode.
bulkUpdateProductsById(prev, imported, globalThreshold) ==
    IF imported = <<>> THEN prev
    ELSE LET imp == Head(imported)
             idx == FindIndex(LAMBDA p : p.id = imp.id, prev)
             status == getProductStatus(imp, globalThreshold)
         IN  bulkUpdateProductsById(
                 IF idx # 0
                 THEN [prev EXCEPT ![idx] = [imp EXCEPT !.id = prev[idx].id,
                                                        !.status = status]]
                 ELSE Append(prev, [imp EXCEPT !.status = status]),
                 Tail(imported), globalThreshold)

RECURSIVE bulkUpdateProductsFrom(_, _, _)
\* imported.forEach(imp => ...) of bulkUpdateProducts on the copy `updated`
bulkUpdateProductsFrom(updated, imported, globalThreshold) ==
    IF imported = <<>> THEN updated
    ELSE LET imp == Head(imported)
             idx == FindIndex(LAMBDA p : p.barcode = imp.barcode, updated)
             status == getProductStatus(imp, globalThreshold)
         IN  bulkUpdateProductsFrom(
                 IF idx # 0
                 THEN [updated EXCEPT
                          ![idx] = [imp EXCEPT !.id = updated[idx].id,
                                               !.status = status]]
                 ELSE Append(updated, [imp EXCEPT !.status = status]),
                 Tail(imported), globalThreshold)

\* setProducts(prev => ...) of bulkUpdateProducts
bulkUpdateProducts(prev, imported, globalThreshold) ==
    bulkUpdateProductsFrom(prev, imported, globalThreshold)

\* Inventory.handleImportCSV once the file is read: onBulkImport when at least
\* one row is valid, an alert and nothing else otherwise.
handleImportCSV(file, stamp) ==
    /\ isAdmin
    /\ \A i \in 1..Len(file) : ImportId(stamp, i) \notin UsedIds
    /\ LET importedItems == ImportedItems(file, stamp, stockThreshold)
       IN  /\ products' = IF Len(importedItems) > 0
                          THEN bulkUpdateProducts(products, importedItems,
                                                  stockThreshold)
                          ELSE products
           /\ Len(products') <= MaxProducts
    /\ inventoryFrame

\* --------------------------------------------------------- connectivity
\* attemptSync, as the 'online' listener registered at mount calls it: the
\* listener effect has no dependencies, so the attemptSync it holds reads the
\* sales array of the first render.
handleOnline ==
    /\ ~isOnline
    /\ isOnline' = TRUE
    /\ IF \E i \in 1..Len(mountedSales) : mountedSales[i].syncStatus = "pending"
       THEN /\ syncTimers < MaxTimers
            /\ isSyncing' = TRUE
            /\ syncTimers' = syncTimers + 1
       ELSE UNCHANGED <<isSyncing, syncTimers>>
    /\ returned' = "none"
    /\ UNCHANGED <<notification, posVars, accessVars>>
    /\ UNCHANGED <<products, sales, cart, settingsVars, stockThreshold,
                   mountedSales, currentUser>>

handleOffline ==
    /\ isOnline
    /\ isOnline' = FALSE
    /\ returned' = "none"
    /\ UNCHANGED <<notification, posVars, accessVars>>
    /\ UNCHANGED <<products, sales, cart, settingsVars, stockThreshold,
                   isSyncing, syncTimers, mountedSales, currentUser>>

\* SalesAfterSync taking the uploaded sales off the local list.
SalesAfterSyncDropped(prev) ==
    SelectSeq(prev, LAMBDA s : s.syncStatus # "pending")

\* SalesAfterSync mapping the sales array of the closure, not the current one.
SalesAfterSyncStale(prev) ==
    [i \in 1..Len(mountedSales) |->
        [mountedSales[i] EXCEPT !.syncStatus = "synced"]]

\* setSales(prev => prev.map(s => ({ ...s, syncStatus: 'synced' })))
SalesAfterSync(prev) ==
    [i \in 1..Len(prev) |-> [prev[i] EXCEPT !.syncStatus = "synced"]]

\* the setTimeout callback of attemptSync, 2000 ms later
syncTimeout ==
    /\ syncTimers > 0
    /\ syncTimers' = syncTimers - 1
    /\ sales' = SalesAfterSync(sales)
    /\ isSyncing' = FALSE
    /\ returned' = "none"
    /\ UNCHANGED <<notification, posVars, accessVars>>
    /\ UNCHANGED <<products, cart, settingsVars, stockThreshold, isOnline,
                   mountedSales, currentUser>>

\* ---------------------------------------------------------- persistence
\* JSON.stringify of a product: an object with the keys whose value is not
\* undefined (the persistence effect of App writes it on every change of
\* products).
StringifyProduct(p) ==
    [id |-> p.id, barcode |-> p.barcode, price |-> p.price,
     stock |-> p.stock, status |-> p.status]
        @@ (IF p.threshold = Undefined
            THEN [k \in {} |-> 0] ELSE [threshold |-> p.threshold[1]])
        @@ (IF p.discountType = "undefined"
            THEN [k \in {} |-> 0] ELSE [discountType |-> p.discountType])
        @@ (IF p.discountValue = Undefined
            THEN [k \in {} |-> 0] ELSE [discountValue |-> p.discountValue[1]])

\* JSON.parse of it: a key that is not there reads as undefined.
ParseProduct(j) ==
    [id |-> j.id, barcode |-> j.barcode, price |-> j.price,
     stock |-> j.stock, status |-> j.status,
     threshold |-> IF "threshold" \in DOMAIN j
                   THEN Some(j.threshold) ELSE Undefined,
     discountType |-> IF "discountType" \in DOMAIN j
                      THEN j.discountType ELSE "undefined",
     discountValue |-> IF "discountValue" \in DOMAIN j
                       THEN Some(j.discountValue) ELSE Undefined]

\* localStorage 'pawprint_products' read back by the initialiser of products
RehydratedProducts(saved) ==
    [i \in 1..Len(saved) |-> ParseProduct(StringifyProduct(saved[i]))]

\* A Sale and its lines hold strings and finite numbers only: every key is
\* written and read back.
RehydratedSale(s) ==
    [id |-> s.id,
     items |-> [k \in 1..Len(s.items) |->
                  [id |-> s.items[k].id, price |-> s.items[k].price,
                   quantity |-> s.items[k].quantity,
                   discountType |-> s.items[k].discountType,
                   discountValue |-> s.items[k].discountValue]],
     subtotal |-> s.subtotal, deliveryFee |-> s.deliveryFee,
     totalDiscount |-> s.totalDiscount, total |-> s.total,
     paymentMethod |-> s.paymentMethod, processedBy |-> s.processedBy,
     syncStatus |-> s.syncStatus]

\* localStorage 'pawprint_sales' read back by the initialiser of sales
RehydratedSales(saved) == [i \in 1..Len(saved) |-> RehydratedSale(saved[i])]

\* The page is loaded again: App is constructed from the two snapshots and
\* the defaults of its other useState calls; pending timers are gone.  The
\* reload is offered while the ledger holds at most MaxSales records.
reload ==
    /\ Len(sales) <= MaxSales
    /\ products' = RehydratedProducts(products)
    /\ sales' = RehydratedSales(sales)
    /\ mountedSales' = RehydratedSales(sales)
    /\ cart' = <<>>
    /\ deliveryEnabled' = FALSE
    /\ deliveryPrice' = DefaultDeliveryPrice
    /\ globalDiscountEnabled' = FALSE
    /\ globalDiscountType' = "percent"
    /\ globalDiscountValue' = 0
    /\ stockThreshold' = DefaultStockThreshold
    /\ isSyncing' = FALSE
    /\ syncTimers' = 0
    /\ currentUser' = "none"
    /\ currentRole' = "none"
    /\ activeTab' = "pos"
    /\ POSMounted
    /\ returned' = "reload"
    /\ UNCHANGED <<isOnline, users>>

\* ---------------------------------------------------------------- system
\* The handlers, by the part of the screen that offers them.
Session == (\E u \in UserIds : handleLogin(u)) \/ onLogout

CartOps ==
    \/ \E i \in 1..Len(products) : addToCart(products[i])
    \/ \E i \in 1..Len(cart) : removeFromCart(cart[i].id)
    \/ \E i \in 1..Len(cart), delta \in {-1, 1} :
          updateCartQuantity(cart[i].id, delta)

Checkout == \E paymentMethod \in PaymentMethods : processCheckout(paymentMethod)

PricingControls ==
    \/ setDeliveryEnabled
    \/ \E price \in DeliveryPriceInputs : setDeliveryPrice(price)
    \/ setGlobalDiscountEnabled
    \/ setGlobalDiscountType
    \/ \E value \in GlobalDiscountInputs : setGlobalDiscountValue(value)

InventoryOps ==
    \/ \E i \in 1..Len(products), data \in FormInputs : handleSaveEdit(i, data)
    \/ \E id \in NewProductIds, barcode \in NewBarcodes, data \in FormInputs :
          handleSaveNew(id, barcode, data)
    \/ \E i \in 1..Len(products) : handleDeleteConfirmed(products[i].id)
    \/ \E val \in ThresholdInputs : setStockThreshold(val)

Connectivity == handleOnline \/ handleOffline \/ syncTimeout

\* The handlers change disjoint parts of the state apart from the cart, the
\* catalog and the ledger they share with the checkout, and the product of
\* all of them is beyond exhaustive search.  Each specification below takes
\* the cart and the checkout together with one group of the other handlers;
\* the variables of the groups left out keep the values of its initial state.

\* The session: login and logout, the cart, the checkout, connectivity and
\* the sync timer, from the state after construction.
Next == Session \/ CartOps \/ Checkout \/ Connectivity

Spec == Init /\ [][Next]_vars

\* The same with the timers of the browser: a timeout that was set fires.
SpecLive == Init /\ [][Next]_vars /\ WF_vars(syncTimeout)

\* The sales panel: the cart, the pricing controls and the checkout, with the
\* cashier logged in and a catalog with both kinds of catalog discount.
InitPOS == Started(POSCatalog, <<>>, TRUE, STAFF_ID, <<>>)

NextPOS == CartOps \/ PricingControls \/ Checkout

SpecPOS == InitPOS /\ [][NextPOS]_vars

\* The calculator: the pricing functions on carts whose lines were added from
\* catalog entries of every shape the inventory form accepts (any discount
\* type with a negative, zero, small, large or over-100 value) and on every
\* setting of the pricing controls; the cart and the controls then change.
CalcDiscountValues == {-5, 0, 20, 60, 100, 150}

CalcLines ==
    { [id |-> "1", price |-> 50, quantity |-> 1,
       discountType |-> t, discountValue |-> v] :
      t \in DiscountTypes, v \in CalcDiscountValues }

CalcCarts == { <<>> } \cup { << line >> : line \in CalcLines }

InitCalc ==
    \E items \in CalcCarts :
        Started(SavedProducts, <<>>, TRUE, STAFF_ID, items)

NextCalc == CartOps \/ PricingControls

SpecCalc == InitCalc /\ [][NextCalc]_vars

\* The store: the cart, the checkout and the inventory screen, with the
\* owner logged in.
InitStore == Started(SavedProducts, <<>>, TRUE, ADMIN_ID, <<>>)

NextStore == CartOps \/ Checkout \/ InventoryOps

SpecStore == InitStore /\ [][NextStore]_vars

\* The import: CSV files read into the catalog, products deleted and the
\* global threshold changed in between, with the owner logged in.
ImportOps ==
    \E file \in ImportFiles, stamp \in ImportStamps : handleImportCSV(file, stamp)

InitImport == Started(SavedProducts, <<>>, TRUE, ADMIN_ID, <<>>)

NextImport ==
    \/ ImportOps
    \/ \E i \in 1..Len(products) : handleDeleteConfirmed(products[i].id)
    \/ \E val \in ThresholdInputs : setStockThreshold(val)

SpecImport == InitImport /\ [][NextImport]_vars

\* The barcode field: barcodes submitted between cart steps and checkouts,
\* with the cashier logged in.
Scan ==
    \/ \E code \in BarcodeInputs : handleBarcodeDetected(code)
    \/ notificationTimeout

InitScan == Started(SavedProducts, <<>>, TRUE, STAFF_ID, <<>>)

NextScan == CartOps \/ Scan \/ Checkout

SpecScan == InitScan /\ [][NextScan]_vars

\* The life of the snapshots: sessions with logins, the cart, checkouts and
\* the global threshold setting, and page loads between them.
InitReload == Started(SavedProducts, <<>>, TRUE, "none", <<>>)

NextReload ==
    \/ Session
    \/ CartOps
    \/ Checkout
    \/ \E val \in ThresholdInputs : setStockThreshold(val)
    \/ reload

SpecReload == InitReload /\ [][NextReload]_vars

\* The catalog under a fixed global threshold: every handler that writes a
\* product (form add, update and delete, CSV import, checkout), with the owner
\* logged in; the cart the checkout needs is filled from the first tile of the
\* grid.
\* The files imported here: one row of 5 units, which either restocks
\* product "1" and gives it a threshold of its own or appends a product
\* that falls back on the global threshold.
CatalogFiles ==
    { file \in ImportFiles :
        /\ Len(file) = 1
        /\ file[1].stock = 5
        /\ \/ file[1].barcode = "8801" /\ file[1].threshold = Some(3)
           \/ file[1].barcode = "8803" /\ file[1].threshold = Undefined }

InitCatalog == Started(SubSeq(SavedProducts, 1, 1), <<>>, TRUE, ADMIN_ID, <<>>)

NextCatalog ==
    \/ Len(products) > 0 /\ addToCart(products[1])
    \/ processCheckout("Cash")
    \/ \E i \in 1..Len(products), data \in FormInputs : handleSaveEdit(i, data)
    \/ \E id \in NewProductIds, barcode \in NewBarcodes, data \in FormInputs :
          handleSaveNew(id, barcode, data)
    \/ \E i \in 1..Len(products) : handleDeleteConfirmed(products[i].id)
    \/ \E file \in CatalogFiles : handleImportCSV(file, "a")

SpecCatalog == InitCatalog /\ [][NextCatalog]_vars

\* The panel and its display: the cart, the pricing controls, the Promo toggle
\* and the checkout, with the cashier logged in.
NextDisplay == CartOps \/ PricingControls \/ setShowDiscountControls \/ Checkout

SpecDisplay == InitPOS /\ [][NextDisplay]_vars

\* The camera scanner: the overlay opened and closed, barcodes detected by
\* the ticks of its interval and its close timeouts, and the cart and the
\* checkout of the panel under the overlay while the overlay is closed, with
\* the cashier logged in.
Camera ==
    \/ openScanner
    \/ \E code \in BarcodeInputs : scanDetected(code)
    \/ scanCloseTimeout
    \/ closeScanner

InitCamera == Started(SavedProducts, <<>>, TRUE, STAFF_ID, <<>>)

NextCamera == Camera \/ (~isScannerOpen /\ (CartOps \/ Checkout))

SpecCamera == InitCamera /\ [][NextCamera]_vars

\* Access: logins and logouts of every user of the list, the tabs of the
\* header, the staff screen and the inventory screen.
UsersOps ==
    \/ \E k \in 1..Len(users), role \in Roles : handleSaveUserEdit(k, role)
    \/ \E id \in NewUserIds, role \in Roles : handleSaveUserNew(id, role)
    \/ \E k \in 1..Len(users) : deleteUser(users[k].id)

InitAccess == Started(SavedProducts, <<>>, TRUE, "none", <<>>)

NextAccess ==
    \/ \E u \in UserIds \cup NewUserIds : handleLogin(u)
    \/ onLogout
    \/ \E tab \in Tabs : setActiveTab(tab)
    \/ UsersOps
    \/ activeTab = "inventory" /\ InventoryOps
    \/ activeTab = "inventory"
          /\ \E file \in CatalogFiles : handleImportCSV(file, "a")

SpecAccess == InitAccess /\ [][NextAccess]_vars

\* The product form with its barcode field: products added, edited and
\* deleted and files imported, with the owner logged in.
InitForm == Started(SavedProducts, <<>>, TRUE, ADMIN_ID, <<>>)

NextForm ==
    \/ \E id \in NewProductIds, barcode \in FormBarcodes, data \in FormInputs :
          handleSaveNew(id, barcode, data)
    \/ \E i \in 1..Len(products), barcode \in FormBarcodes, data \in FormInputs :
          handleSaveEditBarcode(i, barcode, data)
    \/ \E i \in 1..Len(products) : handleDeleteConfirmed(products[i].id)
    \/ ImportOps

SpecForm == InitForm /\ [][NextForm]_vars

\* ------------------------------------------------------------- properties
\* What the specification says, written from its own words; the formulas
\* below compare it with what the handlers above do.

\* A step in which processCheckout built and returned a Sale.
CheckoutCommits == returned' = "sale"

InCart(productId, items) == \E k \in 1..Len(items) : items[k].id = productId

QuantityInCart(productId, items) ==
    items[CHOOSE k \in 1..Len(items) : items[k].id = productId].quantity

\* A sale but for its synchronisation mark.
Unmarked(sale) == [sale EXCEPT !.syncStatus = "-"]

SameButMarks(before, after) ==
    /\ Len(after) = Len(before)
    /\ \A i \in 1..Len(before) : Unmarked(after[i]) = Unmarked(before[i])

\* line total: price*quantity without a discount, price*quantity*(1 - d/100)
\* under a percent discount, max(0, price - d)*quantity under a fixed one.
ClaimedLineTotal(item) ==
    IF item.discountValue <= 0
    THEN item.price * item.quantity * Scale
    ELSE IF item.discountType = "percent"
    THEN (item.price * item.quantity * Scale * (100 - item.discountValue)) \div 100
    ELSE Max(0, item.price - item.discountValue) * item.quantity * Scale

ClaimedSubtotal(items) == SumSeq(ClaimedLineTotal, items)

\* global discount: 0 when disabled or not positive, subtotal*value/100 under
\* percent, min(subtotal, value) under fixed.
ClaimedGlobalDiscount(sub, enabled, type, value) ==
    IF ~enabled \/ value <= 0
    THEN 0
    ELSE IF type = "percent"
    THEN (sub * value) \div 100
    ELSE Min(sub, value * Scale)

ClaimedDeliveryFee == IF deliveryEnabled THEN deliveryPrice * Scale ELSE 0

ClaimedTotal ==
    LET S == ClaimedSubtotal(cart)
        G == ClaimedGlobalDiscount(S, globalDiscountEnabled,
                                   globalDiscountType, globalDiscountValue)
    IN  Max(0, S - G + ClaimedDeliveryFee)

\* C1: processCheckout on an empty cart returns undefined and changes nothing:
\* products, sales, cart and the pricing controls keep their values, and no
\* Sale is created; and it returns undefined only on an empty cart.
C1_EmptyCheckoutNoOp ==
    [][ /\ returned' = "undefined"
            => /\ cart = <<>>
               /\ UNCHANGED <<products, sales, cart, settingsVars,
                              stockThreshold, syncVars, currentUser>>
        /\ cart = <<>> => ~CheckoutCommits /\ sales' = sales
      ]_vars

\* C1 witness: an empty-cart checkout after a sale was recorded and with the
\* pricing controls switched on.
C1_Witness ==
    /\ returned = "undefined"
    /\ Len(sales) > 0
    /\ deliveryEnabled
    /\ globalDiscountEnabled

C3_StockDecrement ==
    [][ CheckoutCommits
            => /\ Len(products') = Len(products)
               /\ \A i \in 1..Len(products) :
                     IF InCart(products[i].id, cart)
                     THEN /\ products'[i].stock =
                                Max(0, products[i].stock
                                         - QuantityInCart(products[i].id, cart))
                          /\ products'[i].stock >= 0
                          /\ products'[i].id = products[i].id
                     ELSE products'[i] = products[i]
      ]_vars

\* C3 witness: two units sold of a product that had one in stock, the other
\* product not sold.
C3_Witness ==
    /\ returned = "sale"
    /\ Len(sales[1].items) = 1
    /\ sales[1].items[1].id = "2"
    /\ sales[1].items[1].quantity = 2
    /\ products[2].stock = 0
    /\ products[1] = SavedProducts[1]

\* C4: the ledger is append-only and newest first: a checkout puts the new
\* Sale at index 0 and keeps every earlier sale in its order, and no other
\* step removes, reorders or rewrites a sale (the synchronisation mark aside).
C4_LedgerAppendOnly ==
    [][ IF CheckoutCommits
        THEN /\ Len(sales') = Len(sales) + 1
             /\ sales'[1].items = cart
             /\ Tail(sales') = sales
        ELSE SameButMarks(sales, sales')
      ]_vars

\* C4 witness: the sale of this session ahead of the one saved by an earlier
\* session, after a synchronisation marked both.
C4_Witness ==
    /\ Len(sales) = 2
    /\ sales[1].id = "s1"
    /\ sales[2].id = "s0"
    /\ sales[2].syncStatus = "synced"
    /\ returned = "none"

\* C5: after a checkout the cart is empty and delivery and global discount are
\* switched off, while deliveryPrice, globalDiscountValue and
\* globalDiscountType keep their values.
C5_ResetAfterCheckout ==
    [][ CheckoutCommits
            => /\ cart' = <<>>
               /\ deliveryEnabled' = FALSE
               /\ globalDiscountEnabled' = FALSE
               /\ UNCHANGED <<deliveryPrice, globalDiscountValue,
                              globalDiscountType>>
      ]_vars

\* C5 witness: a checkout taken with delivery at 3 and a fixed global discount
\* of 10 both switched on.
C5_Witness ==
    /\ returned = "sale"
    /\ sales[1].deliveryFee = 3 * Scale
    /\ cart = <<>>
    /\ ~deliveryEnabled
    /\ ~globalDiscountEnabled
    /\ deliveryPrice = 3
    /\ globalDiscountValue = 10
    /\ globalDiscountType = "fixed"

\* C6: the Sale of a checkout has total = max(0, S - G + D) and
\* deliveryFee = D, S the item-discounted subtotal, G the global discount and
\* D the delivery fee of the moment of the checkout.
C6_SaleTotal ==
    [][ CheckoutCommits
            => /\ sales'[1].total = ClaimedTotal
               /\ sales'[1].deliveryFee = ClaimedDeliveryFee
      ]_vars

\* C6 witness: one item of price 50 at 20%, a fixed global discount of 10 and
\* delivery at 5 give a Sale of total 35 with delivery fee 5.
C6_Witness ==
    /\ returned = "sale"
    /\ Len(sales[1].items) = 1
    /\ sales[1].items[1].price = 50
    /\ sales[1].items[1].quantity = 1
    /\ sales[1].items[1].discountType = "percent"
    /\ sales[1].items[1].discountValue = 20
    /\ globalDiscountType = "fixed"
    /\ globalDiscountValue = 10
    /\ sales[1].deliveryFee = 5 * Scale
    /\ sales[1].total = 35 * Scale

\* C7: the total of a cart line is price*quantity without a positive discount,
\* price*quantity*(1 - d/100) under a percent discount d, and
\* max(0, price - d)*quantity under a fixed one, which is never negative.
C7_LineTotal ==
    \A i \in 1..Len(cart) :
        /\ getItemDiscountedTotal(cart[i]) = ClaimedLineTotal(cart[i])
        /\ cart[i].discountType = "fixed" /\ cart[i].discountValue >= 0
              => getItemDiscountedTotal(cart[i]) >= 0

\* C7 witness: a line of two units of price 50 under a fixed discount of 20
\* per unit, worth 60.
C7_Witness ==
    \E i \in 1..Len(cart) :
          /\ cart[i].discountType = "fixed"
          /\ cart[i].discountValue = 20
          /\ cart[i].quantity = 2
          /\ getItemDiscountedTotal(cart[i]) = 60 * Scale

\* C8: for every cart reachable with the catalog discounts the inventory form
\* accepts, the subtotal is the sum of the line totals and is not negative.
C8_SubtotalNonNegative ==
    /\ subtotal = ClaimedSubtotal(cart)
    /\ subtotal >= 0

\* C8: a cart holding a product saved through the inventory form with a
\* percent discount above 100.
C8_Witness ==
    /\ Len(cart) = 1
    /\ cart[1].discountType = "percent"
    /\ cart[1].discountValue = 150
    /\ subtotal < 0

\* C9: the global discount is 0 when disabled or not positive, subtotal*v/100
\* under percent and min(subtotal, v) under fixed, in App and in POS alike, so
\* a fixed discount never exceeds the subtotal.
C9_GlobalDiscount ==
    LET claimed == ClaimedGlobalDiscount(subtotal, globalDiscountEnabled,
                                         globalDiscountType, globalDiscountValue)
    IN  /\ globalDiscountAmount = claimed
        /\ POS_globalDiscountAmount = claimed
        /\ globalDiscountEnabled /\ globalDiscountValue > 0
                                 /\ globalDiscountType = "fixed"
              => globalDiscountAmount <= subtotal

\* C9 witness: a fixed global discount of 150 on a smaller positive subtotal
\* is cut down to the subtotal.
C9_Witness ==
    /\ globalDiscountEnabled
    /\ globalDiscountType = "fixed"
    /\ globalDiscountValue = 150
    /\ subtotal > 0
    /\ subtotal < 150 * Scale
    /\ globalDiscountAmount = subtotal

\* C10: with delivery enabled the total is at least the delivery fee, whatever
\* the global discount, and without delivery it is at least 0.
C10_TotalAtLeastDelivery ==
    IF deliveryEnabled
    THEN totalCartValue >= deliveryPrice * Scale
    ELSE totalCartValue >= 0

\* C10: a percent global discount of 150 with delivery enabled.
C10_Witness ==
    /\ deliveryEnabled
    /\ globalDiscountEnabled
    /\ globalDiscountType = "percent"
    /\ globalDiscountValue = 150
    /\ cart # <<>>
    /\ totalCartValue < deliveryPrice * Scale

\* The fields a CSV record carries.
SameFields(p, r) ==
    /\ p.barcode = r.barcode
    /\ p.price = r.price
    /\ p.stock = r.stock
    /\ p.threshold = r.threshold
    /\ p.discountType = r.discountType
    /\ p.discountValue = r.discountValue

\* `result` is `prev` after an upsert by barcode of the records `imported`.
UpsertByBarcode(prev, imported, result) ==
    LET barcodes == {imported[i].barcode : i \in 1..Len(imported)}
        Has(seq, b) == \E k \in 1..Len(seq) : seq[k].barcode = b
        First(seq, b) ==
            CHOOSE k \in 1..Len(seq) :
                seq[k].barcode = b /\ \A j \in 1..(k - 1) : seq[j].barcode # b
        Last(seq, b) ==
            CHOOSE k \in 1..Len(seq) :
                seq[k].barcode = b
                    /\ \A j \in (k + 1)..Len(seq) : seq[j].barcode # b
        added == {b \in barcodes : ~Has(prev, b)}
    IN  /\ Len(result) = Len(prev) + Cardinality(added)
        /\ \A k \in 1..Len(prev) :
              IF prev[k].barcode \notin barcodes
              THEN result[k] = prev[k]
              ELSE k = First(prev, prev[k].barcode)
                      => /\ result[k].id = prev[k].id
                         /\ SameFields(result[k],
                                       imported[Last(imported, prev[k].barcode)])
        /\ \A b \in added :
              /\ Cardinality({k \in 1..Len(result) : result[k].barcode = b}) = 1
              /\ \E k \in (Len(prev) + 1)..Len(result) :
                    /\ SameFields(result[k], imported[Last(imported, b)])
                    /\ result[k].id = imported[First(imported, b)].id

\* C11: bulk import is an upsert by barcode: a record whose barcode a product
\* has (one inserted earlier in the same import included) overwrites that
\* product's fields and keeps its identifier and position, any other record is
\* appended; products whose barcode is not imported are unchanged and the
\* catalog grows by the number of distinct new barcodes.
C11_BulkImportUpsert ==
    \A file \in ImportFiles, stamp \in ImportStamps :
        LET imported == ImportedItems(file, stamp, stockThreshold)
        IN  UpsertByBarcode(products, imported,
                            bulkUpdateProducts(products, imported, stockThreshold))

\* C11 witness: a catalog after the import of a record for the barcode of
\* product "1" and a record for a new barcode: the first overwrote product "1"
\* in place, the second was appended under the identifier of its row.
C11_Witness ==
    /\ Len(products) = 2
    /\ products[1].id = "1"
    /\ products[1].barcode = "8801"
    /\ products[1].price = 7
    /\ products[2].barcode = "8803"
    /\ products[2].id = "imp-a-2"

\* Stocks and own thresholds around the boundaries of the derivation.
StatusStocks == {-1, 0, 1, 3, 5, 10, 11, 15}
StatusThresholds == {Undefined, Some(-2), Some(0), Some(3), Some(10)}

\* C12: with threshold = the product's own threshold if set, else the global
\* one, the status is Out of Stock when stock = 0 whatever the threshold, Low
\* Stock when 0 < stock <= threshold and In Stock when stock (not 0) is above
\* the threshold; stock 5 under 10 is Low Stock, stock 15 under 10 In Stock.
C12_StatusDerivation ==
    /\ \A stock \in StatusStocks, own \in StatusThresholds :
          LET p == [stock |-> stock, threshold |-> own]
              threshold == IF own = Undefined THEN stockThreshold ELSE own[1]
              status == getProductStatus(p, stockThreshold)
          IN  /\ stock = 0 => status = "Out of Stock"
              /\ 0 < stock /\ stock <= threshold => status = "Low Stock"
              /\ stock # 0 /\ stock > threshold => status = "In Stock"
              /\ status \in {"Out of Stock", "Low Stock", "In Stock"}
    /\ getProductStatus([stock |-> 5, threshold |-> Undefined], 10) = "Low Stock"
    /\ getProductStatus([stock |-> 15, threshold |-> Undefined], 10) = "In Stock"
    /\ getProductStatus([stock |-> 5, threshold |-> Some(10)], 1) = "Low Stock"

\* C12 witness: after the global threshold was lowered to 1, an import wrote a
\* product of stock 5 with its own threshold 3 as In Stock and a product of
\* stock 0 as Out of Stock.
C12_Witness ==
    /\ stockThreshold = 1
    /\ \E i \in 1..Len(products) :
          /\ products[i].stock = 5
          /\ products[i].threshold = Some(3)
          /\ products[i].status = "In Stock"
    /\ \E i \in 1..Len(products) :
          /\ products[i].stock = 0
          /\ products[i].price = 7
          /\ products[i].status = "Out of Stock"

\* C13: whenever the global stock threshold is changed, the stored status of
\* every product is recomputed: after the change it equals the derivation
\* from the product's stock and its own threshold or the new global one.
C13_ThresholdRecompute ==
    [][ stockThreshold' # stockThreshold
            => \A i \in 1..Len(products') :
                  products'[i].status =
                      getProductStatus(products'[i], stockThreshold')
      ]_vars

\* C13: a product of stock 5 without a threshold of its own, stored as Low
\* Stock under the global threshold 10, after the global threshold became 1.
C13_Witness ==
    /\ stockThreshold = 1
    /\ \E i \in 1..Len(products) :
          /\ products[i].stock = 5
          /\ products[i].threshold = Undefined
          /\ products[i].status = "Low Stock"
          /\ getProductStatus(products[i], stockThreshold) = "In Stock"

\* C14: a Sale is immutable once in the ledger: whatever step follows, every
\* recorded sale is still there with the same id, items, subtotal,
\* totalDiscount, deliveryFee, total, paymentMethod and processedBy; only its
\* syncStatus may change, and only from pending to synced.
C14_SaleImmutable ==
    [][ LET shift == Len(sales') - Len(sales)
        IN  /\ shift >= 0
            /\ \A i \in 1..Len(sales) :
                  /\ Unmarked(sales'[i + shift]) = Unmarked(sales[i])
                  /\ sales'[i + shift].syncStatus # sales[i].syncStatus
                        => /\ sales[i].syncStatus = "pending"
                           /\ sales'[i + shift].syncStatus = "synced"
      ]_vars

\* C14 witness: the sale saved by an earlier session, unchanged but for its
\* mark, below a sale of this session that was itself synchronised, with the
\* cart in use again.
C14_Witness ==
    /\ Len(sales) = 2
    /\ sales[2] = [SavedPendingSale EXCEPT !.syncStatus = "synced"]
    /\ sales[1].id = "s1"
    /\ sales[1].syncStatus = "synced"
    /\ sales[1].processedBy = STAFF_ID
    /\ currentUser = ADMIN_ID
    /\ Len(cart) > 0

\* C15: in every reachable state every cart line has quantity >= 1: a line
\* is created with quantity 1 or incremented, and a quantity change is floored
\* at 1.
C15_QuantityAtLeastOne ==
    \A i \in 1..Len(cart) : cart[i].quantity >= 1

\* C15 witness: a cart of two lines, one incremented to 2 and one at 1, with
\* a sale in the ledger.
C15_Witness ==
    /\ Len(cart) = 2
    /\ cart[1].quantity = 2
    /\ cart[2].quantity = 1
    /\ Len(sales) > 0

\* The units of product `productId` in the cart `items`.
UnitsInCart(productId, items) ==
    IF InCart(productId, items) THEN QuantityInCart(productId, items) ELSE 0

\* The first product carrying the barcode, 0 when there is none.
MatchedProduct(code) ==
    IF \E i \in 1..Len(products) : products[i].barcode = code
    THEN CHOOSE i \in 1..Len(products) :
            /\ products[i].barcode = code
            /\ \A j \in 1..(i - 1) : products[j].barcode # code
    ELSE 0

C17_SyncStatusAtCommit ==
    [][ CheckoutCommits
            => sales'[1].syncStatus = (IF isOnline THEN "synced" ELSE "pending")
      ]_vars

\* C17 witness: a sale just committed as pending on a terminal that started
\* with a clean ledger and is offline.
C17_Witness ==
    /\ returned = "sale"
    /\ ~isOnline
    /\ mountedSales = <<>>
    /\ Len(sales) = 1
    /\ sales[1].syncStatus = "pending"

\* The sales recorded during this session.
SessionSales == 1..(Len(sales) - Len(mountedSales))

\* C18: a Sale recorded as pending during the session is eventually synced,
\* with isSyncing back to false, once the terminal has received an online
\* event and for as long as it stays online.
C18_PendingEventuallySynced ==
    (isOnline /\ \E i \in SessionSales : sales[i].syncStatus = "pending")
        ~> (\/ ~isOnline
            \/ /\ \A i \in SessionSales : sales[i].syncStatus = "synced"
               /\ ~isSyncing)

\* C18: back online with a sale of this session still pending, no
\* synchronisation running and no timer set.
C18_Witness ==
    /\ isOnline
    /\ \E i \in SessionSales : sales[i].syncStatus = "pending"
    /\ ~isSyncing
    /\ syncTimers = 0

\* C19: reloading the application yields the same product list, the same
\* sales ledger and the same settings, the global stock threshold under which
\* the stored statuses were computed included, as just before the reload.
C19_ReloadRoundTrip ==
    [][ returned' = "reload"
            => /\ products' = products
               /\ sales' = sales
               /\ stockThreshold' = stockThreshold
      ]_vars

\* C19: the application just reloaded with a sale in the ledger and a product
\* sold out, the global threshold at its default.
C19_Witness ==
    /\ returned = "reload"
    /\ Len(sales) = 1
    /\ products[2].stock = 0
    /\ products[2].status = "Out of Stock"
    /\ stockThreshold = DefaultStockThreshold

\* The two snapshots alone are read back as they were written.
SnapshotsRoundTrip ==
    [][ returned' = "reload" => products' = products /\ sales' = sales ]_vars

\* price*quantity of a line, undiscounted.
ClaimedLineBase(item) == item.price * item.quantity * Scale

\* undiscounted minus discounted total of a line
ClaimedLineDiscount(item) == ClaimedLineBase(item) - ClaimedLineTotal(item)

\* C20: in every committed Sale subtotal is the sum of the undiscounted
\* price*quantity of its lines, totalDiscount is the sum of the lines'
\* (undiscounted - discounted) plus the global discount amount, and
\* total = max(0, subtotal - totalDiscount + deliveryFee).
C20_SaleNumbers ==
    [][ CheckoutCommits
            => LET sale == sales'[1]
                   G == ClaimedGlobalDiscount(
                            ClaimedSubtotal(cart), globalDiscountEnabled,
                            globalDiscountType, globalDiscountValue)
               IN  /\ sale.subtotal = SumSeq(ClaimedLineBase, sale.items)
                   /\ sale.totalDiscount
                         = SumSeq(ClaimedLineDiscount, sale.items) + G
                   /\ sale.total = Max(0, sale.subtotal - sale.totalDiscount
                                          + sale.deliveryFee)
      ]_vars

\* C20 witness: a Sale of two lines, 50 at 20% and 10 at 3 off, under a 10%
\* global discount with delivery at 5: subtotal 60, total discount
\* 13 + 4.70, total 47.30.
C20_Witness ==
    /\ returned = "sale"
    /\ Len(sales[1].items) = 2
    /\ sales[1].subtotal = 60 * Scale
    /\ sales[1].totalDiscount = 13 * Scale + 47 * 1000
    /\ sales[1].deliveryFee = 5 * Scale
    /\ sales[1].total = 47 * Scale + 3000

\* C21: with the global threshold held fixed, after any sequence of add,
\* update, bulk import and checkout every product's stored status equals the
\* derivation from its current stock and its own threshold or the global one.
C21_StatusCurrent ==
    \A i \in 1..Len(products) :
        products[i].status =
            (LET threshold == IF products[i].threshold = Undefined
                              THEN stockThreshold
                              ELSE products[i].threshold[1]
             IN  IF products[i].stock = 0 THEN "Out of Stock"
                 ELSE IF products[i].stock <= threshold THEN "Low Stock"
                 ELSE "In Stock")

\* C21 witness: after an import restocked product "1" with a threshold of
\* its own, a checkout sold it down from 5 to 4 (In Stock), and the form
\* added product "3" with one unit (Low Stock under the global threshold).
C21_Witness ==
    /\ Len(sales) > 0
    /\ \E i \in 1..Len(products) :
          /\ products[i].id = "1"
          /\ products[i].stock = 4
          /\ products[i].threshold = Some(3)
          /\ products[i].status = "In Stock"
    /\ \E i \in 1..Len(products) :
          /\ products[i].id = "3"
          /\ products[i].status = "Low Stock"

\* C22: removing the last unit of a cart line removes the line: a quantity
\* decrement applied to a line whose quantity is 1 deletes that line from the
\* cart instead of leaving a line behind.
C22_LastUnitRemovesLine ==
    [][ \A i \in 1..Len(cart) :
            (cart[i].quantity = 1 /\ updateCartQuantity(cart[i].id, -1))
                => ~InCart(cart[i].id, cart')
      ]_vars

\* C23: a cart line is a snapshot taken when the line is created: its price,
\* discountType and discountValue are those of the product at the first add,
\* no later step changes them (the same product added again, the catalog
\* product updated, imported over or deleted), and the checkout records and
\* prices the line with them.
C23_LineSnapshot ==
    [][ /\ \A k \in 1..Len(cart') :
              IF InCart(cart'[k].id, cart)
              THEN LET line == cart[CHOOSE j \in 1..Len(cart) :
                                        cart[j].id = cart'[k].id]
                   IN  /\ cart'[k].price = line.price
                       /\ cart'[k].discountType = line.discountType
                       /\ cart'[k].discountValue = line.discountValue
              ELSE \E i \in 1..Len(products) :
                      /\ products[i].id = cart'[k].id
                      /\ cart'[k].price = products[i].price
                      /\ cart'[k].discountType =
                            (IF products[i].discountType = "undefined"
                             THEN "percent" ELSE products[i].discountType)
                      /\ cart'[k].discountValue =
                            (IF products[i].discountValue = Undefined
                             THEN 0 ELSE products[i].discountValue[1])
        /\ CheckoutCommits
              => /\ sales'[1].items = cart
                 /\ sales'[1].total = ClaimedTotal
      ]_vars

\* C23 witness: product "1" was added at price 50 with 20 percent off, the
\* form then rewrote it (price 10, stock 1), and the checkout sold the line at
\* 40, taking the one unit left.
C23_Witness ==
    /\ returned = "sale"
    /\ sales[1].items[1].id = "1"
    /\ sales[1].items[1].price = 50
    /\ sales[1].items[1].discountValue = 20
    /\ sales[1].total = 40 * Scale
    /\ \E i \in 1..Len(products) :
          /\ products[i].id = "1"
          /\ products[i].price = 10
          /\ products[i].stock = 0

\* C24: a Sale's syncStatus changes from 'pending' to 'synced' only while the
\* terminal is online, and never from 'synced' back to 'pending'.  (The claim
\* adds that a sync run marks only the Sales that were pending when it was
\* started; the step that breaks the first part, a timer of a sync firing
\* after the terminal went offline and took a sale, breaks that part too.)
C24_SyncedOnlyOnline ==
    [][ \A i \in 1..Len(sales), j \in 1..Len(sales') :
            sales'[j].id = sales[i].id
                => /\ (sales[i].syncStatus = "pending"
                         /\ sales'[j].syncStatus = "synced") => isOnline
                   /\ ~(sales[i].syncStatus = "synced"
                         /\ sales'[j].syncStatus = "pending")
      ]_vars

\* C24 witness: the terminal offline, no timer left, and the sale it took
\* offline in this session marked synced.
C24_Witness ==
    /\ ~isOnline
    /\ syncTimers = 0
    /\ \E i \in 1..Len(sales) :
          /\ sales[i].id \in SaleIds
          /\ sales[i].syncStatus = "synced"
          /\ \E k \in 1..Len(mountedSales) :
                mountedSales[k].syncStatus = "pending"

\* C25: a form add with a barcode that already belongs to a catalog product
\* is rejected and leaves the catalog unchanged, so that, starting from a
\* catalog with distinct barcodes, no sequence of form adds, form updates and
\* bulk imports produces two products with the same barcode.
C25_BarcodesDistinct ==
    \A i \in 1..Len(products), j \in 1..Len(products) :
        i # j => products[i].barcode # products[j].barcode

\* C25 witness: the form added product "3" under the barcode of product "1",
\* and both are in the catalog.
C25_Witness ==
    \E i \in 1..Len(products), j \in 1..Len(products) :
        /\ products[i].id = "1"
        /\ products[j].id = "3"
        /\ products[i].barcode = "8801"
        /\ products[j].barcode = "8801"

\* C26: the quantity of a cart line never exceeds the stock of its catalog
\* product at the time of the cart operation, so a checkout of a cart built
\* against unchanged inventory never sells more units than were in stock: the
\* units recorded in the Sale equal the stock decrement.
C26_QuantityWithinStock ==
    [][ IF CheckoutCommits
        THEN \A k \in 1..Len(cart), i \in 1..Len(products) :
                products[i].id = cart[k].id
                    => products[i].stock - products'[i].stock
                          = sales'[1].items[k].quantity
        ELSE \A k \in 1..Len(cart'), i \in 1..Len(products) :
                products[i].id = cart'[k].id
                    => cart'[k].quantity <= products[i].stock
      ]_vars

\* C26 witness: a sale of two units of product "2", which had one unit in
\* stock and has none now.
C26_Witness ==
    /\ returned = "sale"
    /\ \E k \in 1..Len(sales[1].items) :
          /\ sales[1].items[k].id = "2"
          /\ sales[1].items[k].quantity = 2
    /\ SavedProducts[2].stock = 1
    /\ \E i \in 1..Len(products) :
          products[i].id = "2" /\ products[i].stock = 0

\* C27: the TOTAL shown on the POS screen at the moment a payment button is
\* pressed equals the total recorded in the resulting Sale, for every cart,
\* delivery setting, global discount setting and position of the Promo
\* toggle.
C27_DisplayedTotalRecorded ==
    [][ CheckoutCommits => sales'[1].total = POS_displayedTotal ]_vars

\* C27 witness: a sale taken with Promo off whose total is not the sum of its
\* discounted lines and its delivery fee, the figure the panel showed.
C27_Witness ==
    /\ returned = "sale"
    /\ ~showDiscountControls
    /\ sales[1].total #
          SumSeq(getItemDiscountedTotal, sales[1].items) + sales[1].deliveryFee

\* C28: the three copies of the line-total calculation agree: for every cart
\* line the checkout engine, the POS display and the receipt compute the same
\* discounted line total, so the per-item discounts printed on the receipt of
\* a Sale sum to the item-level part of the Sale's totalDiscount.
C28_LineTotalsAgree ==
    /\ \A k \in 1..Len(cart) :
          /\ POS_getItemDiscountedTotal(cart[k]) = getItemDiscountedTotal(cart[k])
          /\ Receipt_getItemDiscountedTotal(cart[k])
                = getItemDiscountedTotal(cart[k])
    /\ \A i \in 1..Len(sales) :
          /\ \A k \in 1..Len(sales[i].items) :
                Receipt_getItemDiscountedTotal(sales[i].items[k])
                    = getItemDiscountedTotal(sales[i].items[k])
          /\ SumSeq(Receipt_discount, sales[i].items)
                = SumSeq(ItemDiscount, sales[i].items)

\* C28 witness: a sale of two units of the product priced 10 with 3 off per
\* unit and nothing else: the Sale records an item discount of 6, the receipt
\* prints 3.
C28_Witness ==
    /\ returned = "sale"
    /\ Len(sales[1].items) = 1
    /\ sales[1].items[1].quantity = 2
    /\ sales[1].items[1].discountType = "fixed"
    /\ sales[1].totalDiscount = 6 * Scale
    /\ Receipt_discount(sales[1].items[1]) = 3 * Scale

\* C29: one successful camera scan adds exactly one unit to the cart: between
\* the first successful detection of a barcode and the scanner closing (the
\* success flash, during which the detection interval keeps running) the cart
\* does not change again, and a detection adds a product only if the catalog
\* of the moment of the detection holds it with stock.
C29_OneScanOneUnit ==
    [][ /\ (isScannerOpen /\ isSuccessFlash) => cart' = cart
        /\ (isScannerOpen /\ cart' # cart)
              => \E k \in 1..Len(cart'), i \in 1..Len(products) :
                    /\ UnitsInCart(cart'[k].id, cart) < cart'[k].quantity
                    /\ products[i].id = cart'[k].id
                    /\ products[i].stock > 0
      ]_vars

\* C29 witness: the scanner still open and flashing, two close timeouts
\* pending, and two units of the scanned product in the cart.
C29_Witness ==
    /\ isScannerOpen
    /\ isSuccessFlash
    /\ scanTimers = 2
    /\ Len(cart) = 1
    /\ cart[1].quantity = 2
    /\ Len(sales) = 0

====
